---- MODULE Spec2Model ----
(***************************************************************************)
(* State-machine model of snake_game.py: the game state held in the local *)
(* variables of run() (snake, direction, pending_dir, alive, score, food), *)
(* the event handling of one KEYDOWN / QUIT event, and the per-frame       *)
(* update that moves the snake.                                            *)
(***************************************************************************)
EXTENDS Integers, Sequences, FiniteSets

\* Config.grid_width and Config.grid_height, scaled down from 30 x 20.
GridWidth == 4
GridHeight == 2

\* Largest score the speed function is evaluated for.
MaxScoreChecked == 20

\* Config.base_fps, Config.speedup_every, Config.speedup_amount
base_fps == 5
speedup_every == 5
speedup_amount == 2

\* fps is the rate of the latest clock.tick(current_fps(score)), 0 before the
\* first frame has ended.
\* requested is the direction asked for by the latest direction key the
\* direction-input block has handled in the current batch of events, NoDir if
\* there was none.
VARIABLES snake, direction, pending_dir, alive, score, food, running, pc, fps,
          requested

vars ==
    <<snake, direction, pending_dir, alive, score, food, running, pc, fps,
      requested>>

game == <<snake, direction, pending_dir, alive, score, food>>

\* The keys the event loop distinguishes; K_SPACE stands for any other key.
DirKeys == {"K_UP", "K_w", "K_DOWN", "K_s", "K_LEFT", "K_a", "K_RIGHT", "K_d"}

Keys == DirKeys \cup {"K_r", "K_ESCAPE", "K_SPACE"}

\* The direction a direction key asks for.
KeyVec(key) ==
    IF key \in {"K_UP", "K_w"} THEN <<0, -1>>
    ELSE IF key \in {"K_DOWN", "K_s"} THEN <<0, 1>>
    ELSE IF key \in {"K_LEFT", "K_a"} THEN <<-1, 0>>
    ELSE <<1, 0>>

NoDir == <<0, 0>>

\* The sentinel random_empty_cell returns when the board is full.
NoCell == <<-1, -1>>

Range(s) == {s[i] : i \in 1..Len(s)}

add_swapped(a, b) == <<a[1] + b[2], a[2] + b[1]>>

add(a, b) == <<a[1] + b[1], a[2] + b[2]>>

insideOffByOne(pos) ==
    /\ 0 <= pos[1] /\ pos[1] <= GridWidth
    /\ 0 <= pos[2] /\ pos[2] <= GridHeight

inside(pos) ==
    /\ 0 <= pos[1] /\ pos[1] < GridWidth
    /\ 0 <= pos[2] /\ pos[2] < GridHeight

\* The set of values random_empty_cell(occupied, cfg) can return.
random_empty_cell_early_full(occupied) ==
    LET empties == {c \in (0..(GridWidth - 1)) \X (0..(GridHeight - 1)) :
                        c \notin occupied}
    IN  IF Cardinality(empties) <= 1 THEN {NoCell} ELSE empties

random_empty_cell_no_sentinel(occupied) ==
    LET empties == {c \in (0..(GridWidth - 1)) \X (0..(GridHeight - 1)) :
                        c \notin occupied}
    IN  IF empties = {} THEN {<<0, 0>>} ELSE empties

random_cell_any(occupied) ==
    LET cells == (0..(GridWidth - 1)) \X (0..(GridHeight - 1))
    IN  IF cells \subseteq occupied THEN {NoCell} ELSE cells

random_empty_cell(occupied) ==
    LET empties == {c \in (0..(GridWidth - 1)) \X (0..(GridHeight - 1)) :
                        c \notin occupied}
    IN  IF empties = {} THEN {NoCell} ELSE empties

\* The snake reset_game() builds.
reset_snake ==
    LET start == <<GridWidth \div 2, GridHeight \div 2>>
    IN  <<start, <<start[1] - 1, start[2]>>, <<start[1] - 2, start[2]>>>>

\* reset_game(): the assignment of its returned tuple to the game state.
reset_game_keeps_score ==
    /\ snake' = reset_snake
    /\ direction' = <<1, 0>>
    /\ pending_dir' = <<1, 0>>
    /\ food' \in random_empty_cell(Range(reset_snake))
    /\ alive' = TRUE
    /\ score' = score

reset_game ==
    /\ snake' = reset_snake
    /\ direction' = <<1, 0>>
    /\ pending_dir' = <<1, 0>>
    /\ food' \in random_empty_cell(Range(reset_snake))
    /\ alive' = TRUE
    /\ score' = 0

current_fps_ceil(score_value) ==
    base_fps
        + ((score_value + speedup_every - 1) \div speedup_every) * speedup_amount

current_fps_modulo(score_value) ==
    base_fps + (score_value % speedup_every) * speedup_amount

current_fps(score_value) ==
    base_fps + (score_value \div speedup_every) * speedup_amount

\* "if not alive and event.key == pygame.K_r"
restartsAlways(is_alive, key) == key = "K_r"

restarts(is_alive, key) == ~is_alive /\ key = "K_r"

\* The direction-input block: the value of pending_dir after it.
turn_unchecked(key, is_alive, dir, pending) ==
    IF ~is_alive THEN pending
    ELSE IF key \in {"K_UP", "K_w"} THEN <<0, -1>>
    ELSE IF key \in {"K_DOWN", "K_s"} THEN <<0, 1>>
    ELSE IF key \in {"K_LEFT", "K_a"} THEN <<-1, 0>>
    ELSE IF key \in {"K_RIGHT", "K_d"} THEN <<1, 0>>
    ELSE pending

turn_vs_pending(key, is_alive, dir, pending) ==
    IF ~is_alive THEN pending
    ELSE IF key \in {"K_UP", "K_w"}
         THEN IF pending # <<0, 1>> THEN <<0, -1>> ELSE pending
    ELSE IF key \in {"K_DOWN", "K_s"}
         THEN IF pending # <<0, -1>> THEN <<0, 1>> ELSE pending
    ELSE IF key \in {"K_LEFT", "K_a"}
         THEN IF pending # <<1, 0>> THEN <<-1, 0>> ELSE pending
    ELSE IF key \in {"K_RIGHT", "K_d"}
         THEN IF pending # <<-1, 0>> THEN <<1, 0>> ELSE pending
    ELSE pending

turn_when_dead(key, is_alive, dir, pending) ==
    IF key \in {"K_UP", "K_w"}
         THEN IF dir # <<0, 1>> THEN <<0, -1>> ELSE pending
    ELSE IF key \in {"K_DOWN", "K_s"}
         THEN IF dir # <<0, -1>> THEN <<0, 1>> ELSE pending
    ELSE IF key \in {"K_LEFT", "K_a"}
         THEN IF dir # <<1, 0>> THEN <<-1, 0>> ELSE pending
    ELSE IF key \in {"K_RIGHT", "K_d"}
         THEN IF dir # <<-1, 0>> THEN <<1, 0>> ELSE pending
    ELSE pending

turn_first_wins(key, is_alive, dir, pending) ==
    IF ~is_alive \/ pending # dir THEN pending
    ELSE IF key \in {"K_UP", "K_w"}
         THEN IF dir # <<0, 1>> THEN <<0, -1>> ELSE pending
    ELSE IF key \in {"K_DOWN", "K_s"}
         THEN IF dir # <<0, -1>> THEN <<0, 1>> ELSE pending
    ELSE IF key \in {"K_LEFT", "K_a"}
         THEN IF dir # <<1, 0>> THEN <<-1, 0>> ELSE pending
    ELSE IF key \in {"K_RIGHT", "K_d"}
         THEN IF dir # <<-1, 0>> THEN <<1, 0>> ELSE pending
    ELSE pending

turn(key, is_alive, dir, pending) ==
    IF ~is_alive THEN pending
    ELSE IF key \in {"K_UP", "K_w"}
         THEN IF dir # <<0, 1>> THEN <<0, -1>> ELSE pending
    ELSE IF key \in {"K_DOWN", "K_s"}
         THEN IF dir # <<0, -1>> THEN <<0, 1>> ELSE pending
    ELSE IF key \in {"K_LEFT", "K_a"}
         THEN IF dir # <<1, 0>> THEN <<-1, 0>> ELSE pending
    ELSE IF key \in {"K_RIGHT", "K_d"}
         THEN IF dir # <<-1, 0>> THEN <<1, 0>> ELSE pending
    ELSE pending

\* "if not inside(new_head, cfg) or new_head in snake"
collides_ignoring_self(new_head, s) == ~inside(new_head)

collides_after_move(new_head, s) ==
    ~inside(new_head) \/ new_head \in Range(SubSeq(s, 1, Len(s) - 1))

collides(new_head, s) == ~inside(new_head) \/ new_head \in Range(s)

\* snake.insert(0, new_head)
insert_at_end(s, new_head) == s \o <<new_head>>

insert0(s, new_head) == <<new_head>> \o s

\* snake.pop()
pop_nothing(s) == s

pop_two(s) == SubSeq(s, 1, Len(s) - 2)

pop(s) == SubSeq(s, 1, Len(s) - 1)

Init ==
    /\ snake = reset_snake
    /\ direction = <<1, 0>>
    /\ pending_dir = <<1, 0>>
    /\ food \in random_empty_cell(Range(reset_snake))
    /\ alive = TRUE
    /\ score = 0
    /\ running = TRUE
    /\ pc = "events"
    /\ fps = 0
    /\ requested = NoDir

\* One pygame.QUIT event: pygame.quit(); return
QuitEvent ==
    /\ running /\ pc = "events"
    /\ running' = FALSE
    /\ UNCHANGED <<snake, direction, pending_dir, alive, score, food, pc, fps,
                   requested>>

\* One pygame.KEYDOWN event with event.key = key
KeyDown(key) ==
    /\ running /\ pc = "events"
    /\ IF key = "K_ESCAPE"
       THEN /\ running' = FALSE
            /\ UNCHANGED <<snake, direction, pending_dir, alive, score, food,
                           requested>>
       ELSE IF restarts(alive, key)
       THEN /\ reset_game
            /\ requested' = NoDir
            /\ UNCHANGED running
       ELSE /\ pending_dir' = turn(key, alive, direction, pending_dir)
            /\ requested' = IF alive /\ key \in DirKeys
                                THEN KeyVec(key) ELSE requested
            /\ UNCHANGED <<snake, direction, alive, score, food, running>>
    /\ UNCHANGED <<pc, fps>>

\* The for loop over pygame.event.get() is exhausted: screen.fill(...)
EventsDone ==
    /\ running /\ pc = "events"
    /\ pc' = "update"
    /\ requested' = NoDir
    /\ UNCHANGED <<snake, direction, pending_dir, alive, score, food, running,
                   fps>>

\* The else branch of the collision test: insert the head, then eat or pop
Move(new_head) ==
    IF new_head = food
    THEN /\ snake' = insert0(snake, new_head)
         /\ score' = score + 1
         /\ food' \in random_empty_cell(Range(snake'))
    ELSE /\ snake' = pop(insert0(snake, new_head))
         /\ UNCHANGED <<score, food>>

\* The update with "if alive" guarding only the collision test
TickMovesWhenDead ==
    /\ running /\ pc = "update"
    /\ pc' = "events"
    /\ LET new_head == add(snake[1], pending_dir)
       IN  /\ direction' = pending_dir
           /\ IF alive /\ collides(new_head, snake)
              THEN /\ alive' = FALSE
                   /\ UNCHANGED <<snake, score, food>>
              ELSE /\ alive' = alive
                   /\ Move(new_head)
    /\ fps' = current_fps(score')
    /\ UNCHANGED <<pending_dir, running, requested>>

\* The update of one frame, then drawing and clock.tick back to the loop top
Tick ==
    /\ running /\ pc = "update"
    /\ pc' = "events"
    /\ IF alive
       THEN LET new_head == add(snake[1], pending_dir)
            IN  /\ direction' = pending_dir
                /\ IF collides(new_head, snake)
                   THEN /\ alive' = FALSE
                        /\ UNCHANGED <<snake, score, food>>
                   ELSE /\ alive' = alive
                        /\ Move(new_head)
       ELSE UNCHANGED <<snake, direction, alive, score, food>>
    /\ fps' = current_fps(score')
    /\ UNCHANGED <<pending_dir, running, requested>>

Next ==
    \/ QuitEvent
    \/ \E key \in Keys : KeyDown(key)
    \/ EventsDone
    \/ Tick

Spec == Init /\ [][Next]_vars

\* The pacing alone: the end of a frame for every score up to MaxScoreChecked,
\* as reached on a grid large enough to hold the chain of that score.
RateInit ==
    /\ score \in 0..MaxScoreChecked
    /\ snake = reset_snake
    /\ direction = <<1, 0>>
    /\ pending_dir = <<1, 0>>
    /\ food \in random_empty_cell(Range(reset_snake))
    /\ alive = TRUE
    /\ running = TRUE
    /\ pc = "update"
    /\ fps = 0
    /\ requested = NoDir

\* clock.tick(current_fps(score))
RatePace ==
    /\ running /\ pc = "update"
    /\ fps' = current_fps(score)
    /\ pc' = "events"
    /\ UNCHANGED <<snake, direction, pending_dir, alive, score, food, running,
                   requested>>

RateNext == RatePace

RateSpec == RateInit /\ [][RateNext]_vars

----------------------------------------------------------------------------
(* Vocabulary of the properties *)

neg(d) == <<-d[1], -d[2]>>

InGrid(c) == c[1] \in 0..(GridWidth - 1) /\ c[2] \in 0..(GridHeight - 1)

InChain(c) == \E i \in 1..Len(snake) : snake[i] = c

\* The head the coming tick will try: head + pending direction.
NewHead == add(snake[1], pending_dir)

\* The head the last tick tried, in a state where that tick ended the game.
RefusedHead == add(snake[1], direction)

TickOfAlive == pc = "update" /\ alive

ResetState ==
    LET cx == GridWidth \div 2
        cy == GridHeight \div 2
    IN  /\ alive
        /\ score = 0
        /\ direction = <<1, 0>>
        /\ pending_dir = <<1, 0>>
        /\ snake = <<<<cx, cy>>, <<cx - 1, cy>>, <<cx - 2, cy>>>>

----------------------------------------------------------------------------
\* C1: in every reachable state the cells of the chain are pairwise distinct.
C1_ChainDistinct ==
    \A i, j \in 1..Len(snake) : i # j => snake[i] # snake[j]

\* A game that ended because the new head was a cell of the chain.
C1_Witness ==
    /\ ~alive
    /\ Len(snake) >= 4
    /\ InGrid(RefusedHead)
    /\ InChain(RefusedHead)

\* C2: in every reachable state every chain cell (x, y) has 0 <= x < grid_width
\* and 0 <= y < grid_height, the three cells of reset_game() included.
C2_ChainInside ==
    \A i \in 1..Len(snake) :
        /\ 0 <= snake[i][1] /\ snake[i][1] < GridWidth
        /\ 0 <= snake[i][2] /\ snake[i][2] < GridHeight

\* A game that ended because the new head was outside the grid.
C2_Witness ==
    /\ ~alive
    /\ ~InGrid(RefusedHead)
    /\ score >= 1

\* C3: a tick taken while alive ends the game iff head + pending direction is
\* outside the grid or is a cell of the pre-move chain (its tail included); on
\* such a tick the chain, the score and the item are unchanged.
C3_CollisionIff ==
    [][TickOfAlive =>
          LET hit == ~InGrid(NewHead) \/ InChain(NewHead)
          IN  /\ (alive' = FALSE) <=> hit
              /\ hit => UNCHANGED <<snake, score, food>>]_vars

\* A game that ended because the new head was the tail cell of the chain.
C3_Witness ==
    /\ ~alive
    /\ pc = "events"
    /\ RefusedHead = snake[Len(snake)]

\* C4: for a tick taken while alive, if the new head lands on the item the chain
\* grows by one cell and the score by one; in every other tick of an alive game
\* the chain length and the score are unchanged.
C4_Growth ==
    [][TickOfAlive =>
          IF NewHead = food
          THEN Len(snake') = Len(snake) + 1 /\ score' = score + 1
          ELSE Len(snake') = Len(snake) /\ score' = score]_vars

\* A game in which the item was eaten twice, about to tick again.
C4_Witness ==
    /\ alive
    /\ pc = "update"
    /\ score = 2
    /\ Len(snake) = 5

\* C5: a tick taken after the game is over changes none of alive, chain, score,
\* item, committed direction and pending direction.
C5_TickGameOverNoop ==
    [][(pc = "update" /\ ~alive) => UNCHANGED game]_vars

\* A finished game at the point where the frame's update runs.
C5_Witness ==
    /\ ~alive
    /\ running
    /\ pc = "update"

\* C6: at program start and after every restart the state is alive with score
\* 0, both directions (1,0) and the chain [(cx,cy), (cx-1,cy), (cx-2,cy)] with
\* (cx,cy) = (grid_width div 2, grid_height div 2), whatever the state before.
C6_ResetState ==
    ResetState /\ [][(~alive /\ alive') => ResetState']_vars

\* A finished game that differs from the reset state in chain, score and
\* direction, with the event loop ready to take the R key.
C6_Witness ==
    /\ ~alive
    /\ running
    /\ pc = "events"
    /\ score >= 1
    /\ direction # <<1, 0>>
    /\ snake[1] # <<GridWidth \div 2, GridHeight \div 2>>

\* C7: a direction key whose direction is the negation of the committed
\* direction changes nothing, whatever the pending direction is.
C7_ReversalGuard ==
    [][\A key \in DirKeys :
          (KeyDown(key) /\ KeyVec(key) = neg(direction))
              => UNCHANGED <<game, running, pc, fps>>]_vars

\* An alive game whose pending direction already differs from the committed
\* one, taking key events.
C7_Witness ==
    /\ alive
    /\ running
    /\ pc = "events"
    /\ pending_dir # direction

\* C8: the pending direction is never the negation of the committed direction,
\* and whatever direction keys were pressed since the previous tick, a tick
\* never commits the negation of the direction committed before it.
C8_NoReversal ==
    /\ [](pending_dir # neg(direction))
    /\ [][pc = "update" => direction' # neg(direction)]_vars

\* An alive game that has turned and has a further turn pending.
C8_Witness ==
    /\ alive
    /\ direction # <<1, 0>>
    /\ pending_dir # direction
    /\ pc = "update"

\* C9: a finished game becomes alive again only by the R key, and the R key
\* pressed in an alive game changes nothing.
C9_OnlyResetRevives ==
    /\ [][(~alive /\ alive') => KeyDown("K_r")]_vars
    /\ [][(alive /\ KeyDown("K_r")) => UNCHANGED vars]_vars

\* An alive game that a reset would visibly change, taking key events.
C9_Witness ==
    /\ alive
    /\ running
    /\ pc = "events"
    /\ Len(snake) > 3
    /\ ~ResetState

\* C10: a direction key pressed after the game is over changes none of pending
\* direction, committed direction, chain, score and item.
C10_DeadKeysNoop ==
    [][\A key \in DirKeys : (~alive /\ KeyDown(key)) => UNCHANGED game]_vars

\* A finished game taking key events, its last direction being downward.
C10_Witness ==
    /\ ~alive
    /\ running
    /\ pc = "events"
    /\ direction = <<0, 1>>

----------------------------------------------------------------------------
GridCells == GridWidth * GridHeight

\* A tick of an alive game whose new head is the item.
EatingTick == TickOfAlive /\ NewHead = food

\* A step from game over back to alive: reset_game() ran.
RestartStep == ~alive /\ alive'

\* What random_empty_cell may return for the occupied set occ.
SamplerResult(occ, cell) ==
    /\ cell \notin occ
    /\ cell # NoCell => InGrid(cell)
    /\ cell = NoCell <=> Cardinality(occ) = GridCells

Unit == {<<1, 0>>, <<-1, 0>>, <<0, 1>>, <<0, -1>>}

sub(a, b) == <<a[1] - b[1], a[2] - b[2]>>

\* C11: for every occupied set the program passes to the sampler (the chain at
\* start, at restart and after a consuming tick) the result is not in the set,
\* is a grid cell unless it is the sentinel, and is the sentinel iff the size
\* of the set is grid_width * grid_height.
C11_Sampler ==
    /\ SamplerResult(Range(snake), food)
    /\ [][(RestartStep \/ EatingTick)
             => SamplerResult(Range(snake'), food')]_vars

\* The sampler was given a chain covering the grid and returned the sentinel.
C11_Witness ==
    /\ food = NoCell
    /\ Cardinality(Range(snake)) = GridCells

\* C12: when the consuming tick leaves the chain covering every grid cell, the
\* item becomes the sentinel and the game is still alive after that tick; no
\* tick taken while the item is the sentinel grows the chain or the score.
C12_BoardFull ==
    /\ [][(EatingTick /\ Len(snake) = GridCells - 1)
             => (food' = NoCell /\ alive' /\ Len(snake') = GridCells)]_vars
    /\ [][(pc = "update" /\ food = NoCell)
             => (score' = score /\ snake' = snake /\ food' = NoCell)]_vars

\* An alive game with the board full, back in the event loop after the tick.
C12_Witness ==
    /\ alive
    /\ pc = "events"
    /\ food = NoCell
    /\ score = GridCells - 3

\* C13: in every reachable state the item, unless it is the sentinel, is a grid
\* cell that is not a cell of the chain.
C13_ItemNotInChain ==
    food # NoCell =>
        /\ 0 <= food[1] /\ food[1] < GridWidth
        /\ 0 <= food[2] /\ food[2] < GridHeight
        /\ \A i \in 1..Len(snake) : snake[i] # food

\* An item placed by a consuming tick, after which the snake has moved on.
C13_Witness ==
    /\ alive
    /\ score >= 2
    /\ food # NoCell
    /\ pc = "update"
    /\ NewHead # food

C15_Scenario ==
    fps # 0 =>
        /\ score = 0 => fps = 5
        /\ score = 4 => fps = 5
        /\ score = 5 => fps = 7
        /\ score = 12 => fps = 7
        /\ score = 15 => fps = 11

\* C15: with base rate 5, a speed-up every 5 points and a speed-up amount of 2
\* the loop is paced at 5 for score 0 and 4, at 7 for score 5, at 9 for score
\* 12 and at 11 for score 15.
C15_RateScenario ==
    (fps # 0 /\ base_fps = 5 /\ speedup_every = 5 /\ speedup_amount = 2) =>
        /\ score = 0 => fps = 5
        /\ score = 4 => fps = 5
        /\ score = 5 => fps = 7
        /\ score = 12 => fps = 9
        /\ score = 15 => fps = 11

\* A frame paced at score 12.
C15_Witness ==
    /\ score = 12
    /\ fps = 9

\* C16: the rate never decreases as the score grows, and no step other than a
\* restart lowers the rate the loop uses.
C16_RateMonotone ==
    /\ [](\A s \in 0..(MaxScoreChecked - 1) :
             current_fps(s) <= current_fps(s + 1))
    /\ [][~RestartStep => current_fps(score) <= current_fps(score')]_vars

\* A game whose rate is above the base rate, about to tick.
C16_Witness ==
    /\ score >= speedup_every
    /\ current_fps(score) > base_fps
    /\ pc = "update"

\* C17: a tick of an alive game that does not collide yields the new head
\* followed by the whole old chain when the new head is the item, and the new
\* head followed by the old chain without its last cell, the item unchanged,
\* otherwise.
C17_MoveShape ==
    [][(TickOfAlive /\ alive') =>
          IF NewHead = food
          THEN snake' = <<NewHead>> \o snake
          ELSE /\ snake' = <<NewHead>> \o SubSeq(snake, 1, Len(snake) - 1)
               /\ food' = food]_vars

\* An alive game of five cells that has just moved upward.
C17_Witness ==
    /\ alive
    /\ pc = "events"
    /\ Len(snake) = 5
    /\ direction = <<0, -1>>
    /\ snake[1] = add(snake[2], direction)

\* C18: in every reachable state the score is the chain length minus 3, is not
\* negative and is at most grid_width * grid_height - 3.
C18_ScoreIsGrowth ==
    /\ score = Len(snake) - 3
    /\ 0 <= score
    /\ score <= GridCells - 3

\* A game in which the item was eaten three times.
C18_Witness ==
    /\ score = 3
    /\ Len(snake) = 6

\* C19: every two consecutive chain cells differ by one of the four unit
\* vectors, and after a tick that moved the snake the head minus the second
\* cell is the committed direction.
C19_Connected ==
    /\ [](\A i \in 1..(Len(snake) - 1) : sub(snake[i], snake[i + 1]) \in Unit)
    /\ [][(TickOfAlive /\ alive')
             => sub(snake'[1], snake'[2]) = direction']_vars

\* An alive game that has just moved left along the top row.
C19_Witness ==
    /\ alive
    /\ pc = "events"
    /\ direction = <<-1, 0>>
    /\ snake[1][2] = 0
    /\ sub(snake[1], snake[2]) = direction
    /\ Len(snake) >= 4

\* C20: with the item the sentinel and the game alive, the next tick ends the
\* game whatever direction is pending, and the score does not increase while
\* the item is the sentinel.
C20_FullBoardEnds ==
    /\ [][(TickOfAlive /\ food = NoCell) => alive' = FALSE]_vars
    /\ [][food = NoCell => score' <= score]_vars

\* A game that ended on the tick after the board became full.
C20_Witness ==
    /\ ~alive
    /\ food = NoCell
    /\ Len(snake) = GridCells

====
